---- MODULE Spec2Model ----
(***************************************************************************)
(* A model of gi3d.MeshBase (src/unnamed/part_000): the mesh's local       *)
(* vertex / normal / texture / colour / index arrays, the plane generator  *)
(* (AddPlane, SetPlane, PlaneSize), Validate, and the protocol that        *)
(* compiles the arrays into the gpu.BufferMgr (MakeVectors, Set*Data,      *)
(* Activate, Render3D).                                                    *)
(*                                                                         *)
(* Conventions.                                                            *)
(*  - The mesh is one record ms holding the fields of MeshBase under       *)
(*    their source names.  Every method is an operator from the mesh (and  *)
(*    its arguments) to an outcome [ms |-> mesh after, ret |-> result], so *)
(*    that a method calling another (AddPlane -> SetPlane, Render3D ->     *)
(*    Activate -> MakeVectors) is modelled by the same composition.        *)
(*  - A Go slice is a sequence; Go offset o is sequence index o + 1.       *)
(*  - float32 values are exact rationals <<numerator, denominator>> in     *)
(*    lowest terms (float32 rounding is not modelled).                     *)
(*  - A Go run-time panic (index out of range, nil dereference) ends the   *)
(*    call with ret = Panic; the arrays keep what was written before it,   *)
(*    and no further operation runs.                                       *)
(***************************************************************************)
EXTENDS Integers, Sequences, FiniteSets, TLC

VARIABLES
    ms,     \* the MeshBase
    call,   \* the method called last
    args,   \* its arguments
    ret,    \* how it ended: its error, Done, or Panic
    res,    \* the values it returned
    draw,   \* the gpu.Draw call it issued
    planes  \* the plane calls made since the arrays were last empty

vars == <<ms, call, args, ret, res, draw, planes>>

-----------------------------------------------------------------------------
(* Bounds of the model.                                                    *)

\* largest vertex count (len(Vtx)/3) a plane call may produce
MaxVerts == 8
\* largest len(Idx) a plane call may produce
MaxIdx == 12
\* PlaneSize is applied to segment counts in -MaxSeg..MaxSeg
MaxSeg == 5
\* Validate is applied to arrays of every length in 0..MaxLen
MaxLen == 9
\* plane calls (AddPlane, SetPlane) made between two Resets
MaxPlanes == 2

-----------------------------------------------------------------------------
(* float32 arithmetic, as exact rationals.                                 *)

Abs(x) == IF x < 0 THEN -x ELSE x

RECURSIVE GCD(_, _)
GCD(a, b) == IF b = 0 THEN a ELSE GCD(b, a % b)

\* the rational n/d (d # 0) in lowest terms with a positive denominator
Rat(n, d) ==
    LET g == GCD(Abs(n), Abs(d))
        s == IF d < 0 THEN -1 ELSE 1
    IN  <<(s * n) \div g, (s * d) \div g>>

\* float32(i)
F32(i) == <<i, 1>>

RAdd(p, q) == Rat(p[1] * q[2] + q[1] * p[2], p[2] * q[2])
RSub(p, q) == Rat(p[1] * q[2] - q[1] * p[2], p[2] * q[2])
RMul(p, q) == Rat(p[1] * q[1], p[2] * q[2])
RDiv(p, q) == Rat(p[1] * q[2], p[2] * q[1])

Zero == F32(0)

\* ints.MaxInt
MaxInt(a, b) == IF a > b THEN a ELSE b

\* uint32(x): x modulo 2^32, computed in two 16-bit halves
U32(x) == (x % 65536) + 65536 * ((x \div 65536) % 65536)

-----------------------------------------------------------------------------
(* mat32 vectors and arrays.                                               *)

Dims == {"X", "Y", "Z"}

DimIdx(d) == CASE d = "X" -> 1 [] d = "Y" -> 2 [] d = "Z" -> 3

\* mat32.Vec3{}
Vec3Zero == <<Zero, Zero, Zero>>

\* Vec3.SetDim
SetDim(v, d, val) == [v EXCEPT ![DimIdx(d)] = val]

\* ArrayF32.Extend / ArrayU32.Extend: n more elements, all zero, after the
\* existing ones
Extend(arr, n, zero) == arr \o [i \in 1..n |-> zero]

\* offsets off .. off+Len(vals)-1 all lie in the array
InRange(arr, off, vals) == off >= 0 /\ off + Len(vals) <= Len(arr)

\* the element writes array[off+i] = vals[i] that are in range
WriteAt(arr, off, vals) ==
    LET n == IF off + Len(vals) <= Len(arr) THEN Len(vals) ELSE Len(arr) - off
    IN  IF n <= 0 THEN arr
        ELSE SubSeq(arr, 1, off) \o SubSeq(vals, 1, n)
                 \o SubSeq(arr, off + n + 1, Len(arr))

\* the elements written in order before the first out-of-range one: Go
\* checks each element write, so a write that runs off the end has stored
\* the elements before the end when it panics
ToArray(s, f, off, vals) ==
    IF s.panic THEN s
    ELSE IF off < 0 THEN [s EXCEPT !.panic = TRUE]
    ELSE [s EXCEPT ![f] = WriteAt(s[f], off, vals),
                   !.panic = ~InRange(s[f], off, vals)]

-----------------------------------------------------------------------------
(* gi.Color.                                                               *)

\* the zero colour: gi.Color.IsNil
NilColor == <<0, 0, 0, 0>>

IsNil(clr) == clr = NilColor

\* ColorToVec4f: the four 8-bit components as fractions of 255
ColorToVec4f(clr) == [i \in 1..4 |-> Rat(clr[i], 255)]

-----------------------------------------------------------------------------
(* Results of a call.                                                      *)

\* a nil error
NoErr == "nil"
\* a method without result returned
Done == "done"
\* the call ended in a run-time panic
Panic == "panic"

\* Validate's four errors
ErrNoVerts == "has no verticies"
ErrNorm == "number of Norms != Vtx"
ErrTex == "number of Tex != Vtx"
ErrColor == "number of Colors != Vtx"

\* a nil gpu.BufferMgr
NilBuff == [nil |-> TRUE]

Out(m, r) == [ms |-> m, ret |-> r]

-----------------------------------------------------------------------------
(* Queries and Reset.                                                      *)

Name(m) == m.Nm

HasColor(m) == Len(m.Color) > 0

\* IsTransparent without the HasColor test
IsTransparentFlag(m) == m.Trans

IsTransparent(m) == IF ~HasColor(m) THEN FALSE ELSE m.Trans

\* Reset releasing the buffer manager as well
ResetAll(m) ==
    [m EXCEPT !.Vtx = <<>>, !.Norm = <<>>, !.Tex = <<>>, !.Idx = <<>>,
              !.Color = <<>>, !.Buff = NilBuff]

Reset(m) ==
    [m EXCEPT !.Vtx = <<>>, !.Norm = <<>>, !.Tex = <<>>, !.Idx = <<>>,
              !.Color = <<>>]

\* Validate without the colour count check
ValidateSkipColor(m) ==
    LET vln == Len(m.Vtx) \div 3
        nln == Len(m.Norm) \div 3
        tln == Len(m.Tex) \div 2
    IN  IF vln = 0 THEN ErrNoVerts
        ELSE IF nln # vln THEN ErrNorm
        ELSE IF tln # vln THEN ErrTex
        ELSE NoErr

\* Validate: the error returned, NoErr for nil
Validate(m) ==
    LET vln == Len(m.Vtx) \div 3
        nln == Len(m.Norm) \div 3
        tln == Len(m.Tex) \div 2
        cln == Len(m.Color) \div 4
    IN  IF vln = 0 THEN ErrNoVerts
        ELSE IF nln # vln THEN ErrNorm
        ELSE IF tln # vln THEN ErrTex
        ELSE IF cln = 0 THEN NoErr
        ELSE IF cln # vln THEN ErrColor
        ELSE NoErr

-----------------------------------------------------------------------------
(* The plane generator.                                                    *)

\* PlaneSize without the minimum of 1
PlaneSizeNoClamp(wsegs, hsegs) == <<(wsegs + 1) * (hsegs + 1), wsegs * hsegs * 6>>

\* PlaneSize: <<vtxSize, idxSize>>
PlaneSize(wsegs, hsegs) ==
    LET w == MaxInt(wsegs, 1)
        h == MaxInt(hsegs, 1)
    IN  <<(w + 1) * (h + 1), w * h * 6>>

\* the axis orthogonal to the plane
NormAxis(waxis, haxis) ==
    IF (waxis = "X" /\ haxis = "Y") \/ (waxis = "Y" /\ haxis = "X") THEN "Z"
    ELSE IF (waxis = "X" /\ haxis = "Z") \/ (waxis = "Z" /\ haxis = "X") THEN "Y"
    ELSE IF (waxis = "Z" /\ haxis = "Y") \/ (waxis = "Y" /\ haxis = "Z") THEN "X"
    ELSE "Z"

\* the plane's normal vector
PlaneNorm(w, zoff) ==
    IF zoff > 0 THEN SetDim(Vec3Zero, w, F32(1)) ELSE SetDim(Vec3Zero, w, F32(-1))

\* everything SetPlane computes from its arguments before its loops
PlaneCtx(p) ==
    LET wsegs == MaxInt(p.wsegs, 1)
        hsegs == MaxInt(p.hsegs, 1)
        w == NormAxis(p.waxis, p.haxis)
    IN  [w |-> w,
         wsegs |-> wsegs,
         hsegs |-> hsegs,
         norm |-> PlaneNorm(w, p.zoff),
         wsegs1 |-> wsegs + 1,
         hsegs1 |-> hsegs + 1,
         segWidth |-> RDiv(F32(p.width), F32(wsegs)),
         segHeight |-> RDiv(F32(p.height), F32(hsegs)),
         fwdir |-> F32(p.wdir),
         fhdir |-> F32(p.hdir),
         woff |-> IF p.wdir < 0 THEN F32(p.width + p.woff) ELSE F32(p.woff),
         hoff |-> IF p.hdir < 0 THEN F32(p.height + p.hoff) ELSE F32(p.hoff),
         hasColor |-> ~IsNil(p.clr),
         clrv |-> ColorToVec4f(p.clr)]

\* the arrays allocated afresh at the new size instead of extended
PlaneExtendFresh(m, p, c) ==
    LET sz == Len(m.Vtx) \div 3
        vtxSz == (c.wsegs + 1) * (c.hsegs + 1)
        n == p.stVtxIdx + vtxSz
    IN  IF n > sz
        THEN [m EXCEPT !.Vtx = [i \in 1..(n * 3) |-> Zero],
                       !.Norm = [i \in 1..(n * 3) |-> Zero],
                       !.Tex = [i \in 1..(n * 2) |-> Zero],
                       !.Color = IF c.hasColor THEN [i \in 1..(n * 4) |-> Zero] ELSE @]
        ELSE m

\* only Vtx (and Color) grown, Norm and Tex left at their length
PlaneExtendVtxOnly(m, p, c) ==
    LET sz == Len(m.Vtx) \div 3
        vtxSz == PlaneSize(c.wsegs, c.hsegs)[1]
        dif == (p.stVtxIdx + vtxSz) - sz
    IN  IF p.stVtxIdx + vtxSz > sz
        THEN [m EXCEPT !.Vtx = Extend(@, dif * 3, Zero),
                       !.Color = IF c.hasColor THEN Extend(@, dif * 4, Zero) ELSE @]
        ELSE m

\* the arrays grown to hold vertices up to stVtxIdx + vtxSz
PlaneExtend(m, p, c) ==
    LET sz == Len(m.Vtx) \div 3
        vtxSz == PlaneSize(c.wsegs, c.hsegs)[1]
        dif == (p.stVtxIdx + vtxSz) - sz
    IN  IF p.stVtxIdx + vtxSz > sz
        THEN [m EXCEPT !.Vtx = Extend(@, dif * 3, Zero),
                       !.Norm = Extend(@, dif * 3, Zero),
                       !.Tex = Extend(@, dif * 2, Zero),
                       !.Color = IF c.hasColor THEN Extend(@, dif * 4, Zero) ELSE @]
        ELSE m

\* the position of grid vertex (ix, iy)
PlaneVtx(p, c, ix, iy) ==
    LET v1 == SetDim(Vec3Zero, p.waxis,
                     RAdd(RMul(RMul(F32(ix), c.segWidth), c.fwdir), c.woff))
        v2 == SetDim(v1, p.haxis,
                     RAdd(RMul(RMul(F32(iy), c.segHeight), c.fhdir), c.hoff))
    IN  SetDim(v2, c.w, F32(p.zoff))

\* the texture coordinate of grid vertex (ix, iy)
PlaneTex(c, ix, iy) ==
    <<RDiv(F32(ix), F32(c.wsegs)), RSub(F32(1), RDiv(F32(iy), F32(c.hsegs)))>>

\* the vertex loop with the height coordinate varying fastest
VtxStepHeightInner(s, p, c, k) ==
    LET ix == k \div c.hsegs1
        iy == k % c.hsegs1
        vidx == (p.stVtxIdx + k) * 3
        tidx == (p.stVtxIdx + k) * 2
        cidx == (p.stVtxIdx + k) * 4
        s1 == ToArray(s, "Vtx", vidx, PlaneVtx(p, c, ix, iy))
        s2 == IF p.setNorm THEN ToArray(s1, "Norm", vidx, c.norm) ELSE s1
        s3 == IF p.setTex THEN ToArray(s2, "Tex", tidx, PlaneTex(c, ix, iy)) ELSE s2
    IN  IF c.hasColor THEN ToArray(s3, "Color", cidx, c.clrv) ELSE s3

\* one pass of the body of the vertex loop, for the k-th vertex written
\* (k = iy * wsegs1 + ix); s holds the arrays and whether a write panicked
VtxStep(s, p, c, k) ==
    LET ix == k % c.wsegs1
        iy == k \div c.wsegs1
        vidx == (p.stVtxIdx + k) * 3
        tidx == (p.stVtxIdx + k) * 2
        cidx == (p.stVtxIdx + k) * 4
        s1 == ToArray(s, "Vtx", vidx, PlaneVtx(p, c, ix, iy))
        s2 == IF p.setNorm THEN ToArray(s1, "Norm", vidx, c.norm) ELSE s1
        s3 == IF p.setTex THEN ToArray(s2, "Tex", tidx, PlaneTex(c, ix, iy)) ELSE s2
    IN  IF c.hasColor THEN ToArray(s3, "Color", cidx, c.clrv) ELSE s3

\* the vertex loop from the k-th vertex on; it stops at a panic
RECURSIVE VtxLoop(_, _, _, _)
VtxLoop(s, p, c, k) ==
    IF s.panic \/ k >= c.wsegs1 * c.hsegs1 THEN s
    ELSE VtxLoop(VtxStep(s, p, c, k), p, c, k + 1)

\* the cell's corners numbered from 1 instead of 0
CellIdxFromOne(p, c, ix, iy) ==
    LET a == 1 + ix + c.wsegs1 * iy
        b == 1 + ix + c.wsegs1 * (iy + 1)
        cc == 1 + (ix + 1) + c.wsegs1 * (iy + 1)
        d == 1 + (ix + 1) + c.wsegs1 * iy
    IN  <<a + p.stVtxIdx, b + p.stVtxIdx, d + p.stVtxIdx,
          b + p.stVtxIdx, cc + p.stVtxIdx, d + p.stVtxIdx>>

\* the six indexes of grid cell (ix, iy): triangles (a, b, d) and (b, c, d)
CellIdx(p, c, ix, iy) ==
    LET a == ix + c.wsegs1 * iy
        b == ix + c.wsegs1 * (iy + 1)
        cc == (ix + 1) + c.wsegs1 * (iy + 1)
        d == (ix + 1) + c.wsegs1 * iy
    IN  <<U32(a + p.stVtxIdx), U32(b + p.stVtxIdx), U32(d + p.stVtxIdx),
          U32(b + p.stVtxIdx), U32(cc + p.stVtxIdx), U32(d + p.stVtxIdx)>>

\* the index loop from the k-th cell on (k = iy * wsegs + ix)
RECURSIVE IdxLoop(_, _, _, _)
IdxLoop(s, p, c, k) ==
    IF s.panic \/ k >= c.wsegs * c.hsegs THEN s
    ELSE IdxLoop(ToArray(s, "Idx", p.stIdxIdx + 6 * k,
                         CellIdx(p, c, k % c.wsegs, k \div c.wsegs)),
                 p, c, k + 1)

\* the index part of SetPlane
PlaneIdx(s, p, c) ==
    LET idxSz == PlaneSize(c.wsegs, c.hsegs)[2]
        lidx == Len(s.Idx)
        e == IF p.stIdxIdx + idxSz > lidx
             THEN [s EXCEPT !.Idx = Extend(@, (p.stIdxIdx + idxSz) - lidx, 0)]
             ELSE s
    IN  IdxLoop(e, p, c, 0)

\* SetPlane; p is the record of its arguments
SetPlane(m, p) ==
    LET c == PlaneCtx(p)
        e == PlaneExtend(m, p, c)
        s0 == [Vtx |-> e.Vtx, Norm |-> e.Norm, Tex |-> e.Tex, Color |-> e.Color,
               Idx |-> e.Idx, panic |-> FALSE]
        s1 == VtxLoop(s0, p, c, 0)
        s2 == IF p.setIdx /\ ~s1.panic THEN PlaneIdx(s1, p, c) ELSE s1
    IN  Out([m EXCEPT !.Vtx = s2.Vtx, !.Norm = s2.Norm, !.Tex = s2.Tex,
                      !.Color = s2.Color, !.Idx = s2.Idx],
            IF s2.panic THEN Panic ELSE Done)

\* AddPlane; q is the record of its arguments
AddPlane(m, q) ==
    LET stVtxIdx == Len(m.Vtx) \div 3
        stIdxIdx == Len(m.Idx)
    IN  SetPlane(m, [stVtxIdx |-> stVtxIdx, stIdxIdx |-> stIdxIdx,
                     setNorm |-> TRUE, setTex |-> TRUE, setIdx |-> TRUE] @@ q)

-----------------------------------------------------------------------------
(* gpu.BufferMgr with its VectorsBuffer and IndexesBuffer, as the state    *)
(* the mesh puts into it: the usage hints, the vector streams in order     *)
(* with their interleave flag and data, the lengths, the index data, and   *)
(* whether the buffer is the one bound as current.  epoch tells one set of  *)
(* streams from the next: it flips each time DeleteAllVectors empties the   *)
(* set, so streams that were kept have the epoch they had.                  *)

NewBufferMgr ==
    [nil |-> FALSE, usage |-> "none", vecs |-> <<>>, vlen |-> 0, iusage |-> "none",
     ilen |-> 0, idata |-> <<>>, active |-> FALSE, epoch |-> 0]

AddVectorsBuffer(b, usg) == [b EXCEPT !.usage = usg]

AddIndexesBuffer(b, usg) == [b EXCEPT !.iusage = usg]

NumVectors(b) == Len(b.vecs)

DeleteAllVectors(b) == [b EXCEPT !.vecs = <<>>, !.epoch = 1 - @]

AddVectors(b, vec, interleave) ==
    [b EXCEPT !.vecs = Append(@, [vec |-> vec, interleave |-> interleave,
                                  data |-> <<>>])]

\* VectorsBuffer.SetLen
SetLen(b, ln) == [b EXCEPT !.vlen = ln]

\* VectorsBuffer.SetVecData: the data of the stream of that vector, when the
\* buffer has one
SetVecData(b, vec, data) ==
    [b EXCEPT !.vecs = [i \in 1..Len(@) |->
                           IF @[i].vec = vec THEN [@[i] EXCEPT !.data = data]
                           ELSE @[i]]]

\* IndexesBuffer.SetLen
IdxSetLen(b, ln) == [b EXCEPT !.ilen = ln]

\* IndexesBuffer.Set
IdxSet(b, idx) == [b EXCEPT !.idata = idx]

\* IndexesBuffer.Len
IdxLen(b) == b.ilen

\* BufferMgr.Activate
BuffActivate(b) == [b EXCEPT !.active = TRUE]

-----------------------------------------------------------------------------
(* Compiling the mesh into the buffer, and drawing.                        *)

\* MakeVectors deleting and adding the streams on every compile
MakeVectorsRebuild(m) ==
    LET b0 == IF m.Buff = NilBuff
              THEN AddIndexesBuffer(
                       AddVectorsBuffer(NewBufferMgr,
                           IF m.Dynamic THEN "DynamicDraw" ELSE "StaticDraw"),
                       "StaticDraw")
              ELSE m.Buff
        hasColor == HasColor(m)
        d0 == DeleteAllVectors(b0)
        d1 == AddVectors(d0, "InVtxPos", TRUE)
        d2 == AddVectors(d1, "InVtxNorm", TRUE)
        d3 == AddVectors(d2, "InVtxTex", TRUE)
        b1 == IF hasColor THEN AddVectors(d3, "InVtxColor", FALSE) ELSE d3
        b2 == SetLen(b1, Len(m.Vtx) \div 3)
        b3 == SetVecData(b2, "InVtxPos", m.Vtx)
        b4 == SetVecData(b3, "InVtxNorm", m.Norm)
        b5 == SetVecData(b4, "InVtxTex", m.Tex)
        b6 == IF hasColor THEN SetVecData(b5, "InVtxColor", m.Color) ELSE b5
    IN  [m EXCEPT !.Buff = IdxSet(IdxSetLen(b6, Len(m.Idx)), m.Idx)]

\* MakeVectors past its validation
MakeVectorsBody(m) ==
    LET b0 == IF m.Buff = NilBuff
              THEN AddIndexesBuffer(
                       AddVectorsBuffer(NewBufferMgr,
                           IF m.Dynamic THEN "DynamicDraw" ELSE "StaticDraw"),
                       "StaticDraw")
              ELSE m.Buff
        hasColor == HasColor(m)
        nvec == IF hasColor THEN 4 ELSE 3
        b1 == IF NumVectors(b0) # nvec
              THEN LET d0 == DeleteAllVectors(b0)
                       d1 == AddVectors(d0, "InVtxPos", TRUE)
                       d2 == AddVectors(d1, "InVtxNorm", TRUE)
                       d3 == AddVectors(d2, "InVtxTex", TRUE)
                   IN  IF hasColor THEN AddVectors(d3, "InVtxColor", FALSE) ELSE d3
              ELSE b0
        vln == Len(m.Vtx) \div 3
        b2 == SetLen(b1, vln)
        b3 == SetVecData(b2, "InVtxPos", m.Vtx)
        b4 == SetVecData(b3, "InVtxNorm", m.Norm)
        b5 == SetVecData(b4, "InVtxTex", m.Tex)
        b6 == IF hasColor THEN SetVecData(b5, "InVtxColor", m.Color) ELSE b5
        iln == Len(m.Idx)
    IN  [m EXCEPT !.Buff = IdxSet(IdxSetLen(b6, iln), m.Idx)]

\* MakeVectors building the buffer before it looks at Validate's error
MakeVectorsUnchecked(m) ==
    LET err == Validate(m)
    IN  IF err # NoErr THEN Out(MakeVectorsBody(m), err)
        ELSE Out(MakeVectorsBody(m), NoErr)

MakeVectors(m) ==
    LET err == Validate(m)
    IN  IF err # NoErr THEN Out(m, err) ELSE Out(MakeVectorsBody(m), NoErr)

\* ms.Buff.VectorsBuffer() on a nil Buff is a nil dereference
SetVtxData(m) ==
    IF m.Buff = NilBuff THEN Out(m, Panic)
    ELSE Out([m EXCEPT !.Buff = SetVecData(@, "InVtxPos", m.Vtx)], Done)

SetNormData(m) ==
    IF m.Buff = NilBuff THEN Out(m, Panic)
    ELSE Out([m EXCEPT !.Buff = SetVecData(@, "InVtxNorm", m.Norm)], Done)

SetColorData(m) ==
    IF m.Buff = NilBuff THEN Out(m, Panic)
    ELSE Out([m EXCEPT !.Buff = SetVecData(@, "InVtxColor", m.Color)], Done)

\* Activate compiling on every call
ActivateRecompile(m) ==
    LET m1 == MakeVectors(m).ms
    IN  IF m1.Buff = NilBuff THEN Out(m1, Panic)
        ELSE Out([m1 EXCEPT !.Buff = BuffActivate(@)], Done)

\* Activate: MakeVectors' error is dropped, and ms.Buff.Activate() on a Buff
\* that is still nil is a nil dereference
Activate(m) ==
    LET m1 == IF m.Buff = NilBuff THEN MakeVectors(m).ms ELSE m
    IN  IF m1.Buff = NilBuff THEN Out(m1, Panic)
        ELSE Out([m1 EXCEPT !.Buff = BuffActivate(@)], Done)

\* no draw call
NoDraw == [op |-> "none", start |-> 0, count |-> 0]

\* gpu.Draw.TrianglesIndexed(start, count)
TrianglesIndexed(start, count) ==
    [op |-> "TrianglesIndexed", start |-> start, count |-> count]

\* Render3D: the outcome, with the draw call issued
Render3D(m) ==
    LET a == Activate(m)
    IN  IF a.ret = Panic THEN [ms |-> a.ms, ret |-> Panic, draw |-> NoDraw]
        ELSE [ms |-> a.ms, ret |-> Done,
              draw |-> TrianglesIndexed(0, IdxLen(a.ms.Buff))]

-----------------------------------------------------------------------------
(* The arguments the operations are called with.                           *)

Colors == {NilColor, <<255, 0, 0, 255>>}

\* one placement: width along X, height along Y, at z = 1
GeomsOne ==
    {[waxis |-> "X", haxis |-> "Y", wdir |-> 1, hdir |-> 1, width |-> 2,
      height |-> 2, woff |-> 0, hoff |-> 0, zoff |-> 1]}

\* more placements: other axes (equal ones too), directions and sides
GeomsSome ==
    GeomsOne \cup
    {[waxis |-> "Z", haxis |-> "X", wdir |-> -1, hdir |-> 1, width |-> 2,
      height |-> 3, woff |-> 0, hoff |-> 1, zoff |-> -1],
     [waxis |-> "Y", haxis |-> "Y", wdir |-> 1, hdir |-> -1, width |-> 1,
      height |-> 2, woff |-> 1, hoff |-> 0, zoff |-> 0]}

SegsAll == {-1, 0, 1, 2}

SegsFew == {1, 2}

\* argument records of AddPlane
AddArgs(G, S, C) ==
    {g @@ [wsegs |-> w, hsegs |-> h, clr |-> c] : g \in G, w \in S, h \in S, c \in C}

\* argument records of SetPlane
SetArgs(A, V, I, F) ==
    {[stVtxIdx |-> v, stIdxIdx |-> i, setNorm |-> f[1], setTex |-> f[2],
      setIdx |-> f[3]] @@ a : a \in A, v \in V, i \in I, f \in F}

\* the setNorm, setTex, setIdx flags
Flags == BOOLEAN \X BOOLEAN \X BOOLEAN

\* all set, and each one alone
FlagsSome ==
    {<<TRUE, TRUE, TRUE>>, <<TRUE, FALSE, FALSE>>, <<FALSE, TRUE, FALSE>>,
     <<FALSE, FALSE, TRUE>>}

\* the plane call stays within the bounds of the model
Fits(stVtxIdx, stIdxIdx, setIdx, q) ==
    LET sz == PlaneSize(q.wsegs, q.hsegs)
    IN  /\ stVtxIdx + sz[1] <= MaxVerts
        /\ setIdx => stIdxIdx + sz[2] <= MaxIdx

-----------------------------------------------------------------------------
(* The state machine.                                                      *)

NewMesh(dyn, trans) ==
    [Nm |-> "mesh", Dynamic |-> dyn, Trans |-> trans, Vtx |-> <<>>,
     Norm |-> <<>>, Tex |-> <<>>, Idx |-> <<>>, Color |-> <<>>, Buff |-> NilBuff]

NoArgs == [none |-> TRUE]

Fresh(m) ==
    /\ ms = m
    /\ call = "new"
    /\ args = NoArgs
    /\ ret = Done
    /\ res = <<>>
    /\ draw = NoDraw
    /\ planes = 0

\* a mesh as constructed, with either value of its two flags
Init == \E d \in BOOLEAN, t \in BOOLEAN : Fresh(NewMesh(d, t))

\* a static, opaque mesh as constructed
InitPlain == Fresh(NewMesh(FALSE, FALSE))

\* a panic that is not recovered ends the program
Crashed == ret = Panic

\* one call: the mesh after it, how it ended, what it returned and drew
Step(c, a, m, r, v, d) ==
    /\ ~Crashed
    /\ ms' = m
    /\ call' = c
    /\ args' = a
    /\ ret' = r
    /\ res' = v
    /\ draw' = d

\* a call that is not a plane call
Call(c, a, m, r, v, d) == Step(c, a, m, r, v, d) /\ UNCHANGED planes

\* a plane call
PlaneCall(c, a, o) ==
    /\ planes < MaxPlanes
    /\ Step(c, a, o.ms, o.ret, <<>>, NoDraw)
    /\ planes' = planes + 1

DoReset == Step("Reset", NoArgs, Reset(ms), Done, <<>>, NoDraw) /\ planes' = 0

DoValidate == Call("Validate", NoArgs, ms, Validate(ms), <<>>, NoDraw)

DoPlaneSize(wsegs, hsegs) ==
    Call("PlaneSize", [wsegs |-> wsegs, hsegs |-> hsegs], ms, Done,
         PlaneSize(wsegs, hsegs), NoDraw)

DoAddPlane(q) ==
    /\ Fits(Len(ms.Vtx) \div 3, Len(ms.Idx), TRUE, q)
    /\ PlaneCall("AddPlane", q, AddPlane(ms, q))

DoSetPlane(p) ==
    /\ Fits(p.stVtxIdx, p.stIdxIdx, p.setIdx, p)
    /\ PlaneCall("SetPlane", p, SetPlane(ms, p))

DoMakeVectors ==
    LET o == MakeVectors(ms)
    IN  Call("MakeVectors", NoArgs, o.ms, o.ret, <<>>, NoDraw)

DoSetVtxData ==
    LET o == SetVtxData(ms)
    IN  Call("SetVtxData", NoArgs, o.ms, o.ret, <<>>, NoDraw)

DoSetNormData ==
    LET o == SetNormData(ms)
    IN  Call("SetNormData", NoArgs, o.ms, o.ret, <<>>, NoDraw)

DoSetColorData ==
    LET o == SetColorData(ms)
    IN  Call("SetColorData", NoArgs, o.ms, o.ret, <<>>, NoDraw)

DoActivate ==
    LET o == Activate(ms)
    IN  Call("Activate", NoArgs, o.ms, o.ret, <<>>, NoDraw)

DoRender3D ==
    LET o == Render3D(ms)
    IN  Call("Render3D", NoArgs, o.ms, o.ret, <<>>, o.draw)

\* the plane calls of the full machine: planes of one cell, with and without
\* colour, appended, and the positions and normals of the first one
\* generated again on the other side
SpecAddArgs == AddArgs(GeomsOne, {1}, Colors)

SpecSetArgs ==
    SetArgs({[g EXCEPT !.zoff = -1] @@ [wsegs |-> 1, hsegs |-> 1, clr |-> NilColor] :
                 g \in GeomsOne},
            {0}, {0}, {<<TRUE, FALSE, FALSE>>})

Next ==
    \/ DoReset
    \/ \E q \in SpecAddArgs : DoAddPlane(q)
    \/ \E p \in SpecSetArgs : DoSetPlane(p)
    \/ DoMakeVectors
    \/ DoSetVtxData
    \/ DoSetNormData
    \/ DoSetColorData
    \/ DoActivate
    \/ DoRender3D

Spec == Init /\ [][Next]_vars

\* AddPlane alone, over several placements and every segment count
NextAdd == \E q \in AddArgs(GeomsSome, SegsAll, Colors) : DoAddPlane(q)

SpecAdd == InitPlain /\ [][NextAdd]_vars

\* the array operations: Reset, AddPlane, and SetPlane at start offsets
\* before, inside and at the end of the arrays
NextSet ==
    \/ DoReset
    \/ \E q \in AddArgs(GeomsOne, {1}, Colors) : DoAddPlane(q)
    \/ \E p \in SetArgs(AddArgs(GeomsOne, SegsFew, Colors), {0, 2, 4}, {0},
                        FlagsSome) : DoSetPlane(p)

SpecSet == InitPlain /\ [][NextSet]_vars

\* the array operations with every combination of the setNorm, setTex and
\* setIdx flags, at start offsets before, inside and at the end of the arrays
NextFlags ==
    \/ DoReset
    \/ \E q \in AddArgs(GeomsOne, {1}, Colors) : DoAddPlane(q)
    \/ \E p \in SetArgs(AddArgs(GeomsOne, {1}, Colors), {0, 2, 4}, {0},
                        Flags) : DoSetPlane(p)

SpecFlags == InitPlain /\ [][NextFlags]_vars

\* PlaneSize on every pair of segment counts, on an empty mesh and on
\* meshes holding planes
NextSize ==
    \/ \E w \in -MaxSeg..MaxSeg, h \in -MaxSeg..MaxSeg : DoPlaneSize(w, h)
    \/ \E q \in SpecAddArgs : DoAddPlane(q)

SpecSize == InitPlain /\ [][NextSize]_vars

\* Validate on arrays of every combination of lengths: the fields are
\* exported, so a caller can give them any length
ZeroArr(n, zero) == [i \in 1..n |-> zero]

InitValidate ==
    \E v \in 0..MaxLen, n \in 0..MaxLen, t \in 0..MaxLen, c \in 0..MaxLen :
        Fresh([NewMesh(FALSE, FALSE) EXCEPT
                  !.Vtx = ZeroArr(v, Zero), !.Norm = ZeroArr(n, Zero),
                  !.Tex = ZeroArr(t, Zero), !.Color = ZeroArr(c, Zero)])

NextValidate == DoValidate

SpecValidate == InitValidate /\ [][NextValidate]_vars

-----------------------------------------------------------------------------
(* Properties.                                                             *)

\* the vertex count of the local arrays
VtxCount(m) == Len(m.Vtx) \div 3

\* C1: PlaneSize(wsegs, hsegs) returns vtxSize = (w+1)*(h+1) and
\* idxSize = w*h*6 with w = max(wsegs, 1) and h = max(hsegs, 1), for
\* negative, zero and positive segment counts, and leaves the mesh as it was.
C1_PlaneSizeContract ==
    [][call' = "PlaneSize" =>
          LET w == IF args'.wsegs >= 1 THEN args'.wsegs ELSE 1
              h == IF args'.hsegs >= 1 THEN args'.hsegs ELSE 1
          IN  /\ res' = <<(w + 1) * (h + 1), w * h * 6>>
              /\ ms' = ms]_vars

\* PlaneSize has clamped a zero and a negative count, on a mesh holding a plane
C1_Witness ==
    /\ call = "PlaneSize"
    /\ args.wsegs = 0
    /\ args.hsegs < 0
    /\ res = <<4, 6>>
    /\ Len(ms.Vtx) > 0

\* C2 as stated: Validate returns nil exactly when the normal and texcoord
\* counts equal the vertex count and the colour count is 0 or the vertex
\* count.
C2_ValidateIffCounts ==
    call = "Validate" =>
        LET vln == Len(ms.Vtx) \div 3
            nln == Len(ms.Norm) \div 3
            tln == Len(ms.Tex) \div 2
            cln == Len(ms.Color) \div 4
        IN  (ret = NoErr) <=> (nln = vln /\ tln = vln /\ (cln = 0 \/ cln = vln))

\* C2 amended: Validate returns nil exactly when the vertex count is at
\* least 1, the normal and texcoord counts equal it, and the colour count is
\* 0 or equal to it; otherwise it returns an error.
C2_ValidateIffCountsNonEmpty ==
    call = "Validate" =>
        LET vln == Len(ms.Vtx) \div 3
            nln == Len(ms.Norm) \div 3
            tln == Len(ms.Tex) \div 2
            cln == Len(ms.Color) \div 4
        IN  /\ (ret = NoErr) <=>
                (vln >= 1 /\ nln = vln /\ tln = vln /\ (cln = 0 \/ cln = vln))
            /\ ret \in {NoErr, ErrNoVerts, ErrNorm, ErrTex, ErrColor}

\* Validate has accepted a mesh of two vertices with a colour for each
C2_Witness ==
    /\ call = "Validate"
    /\ ret = NoErr
    /\ Len(ms.Vtx) = 6
    /\ Len(ms.Color) = 8

\* C3 as stated: after any sequence of AddPlane calls, with or without a
\* colour each, no call has written out of range and len(Color) is 0 or 4
\* times the vertex count.
C3_ColorAllOrNone ==
    /\ ret # Panic
    /\ Len(ms.Color) = 0 \/ Len(ms.Color) = 4 * VtxCount(ms)

\* C4: after any sequence of AddPlane calls every value in Idx is below the
\* vertex count, and len(Idx) is a multiple of 6.
C4_IdxInRange ==
    /\ \A i \in 1..Len(ms.Idx) : ms.Idx[i] >= 0 /\ ms.Idx[i] < VtxCount(ms)
    /\ Len(ms.Idx) % 6 = 0

\* two planes were added, the second from a non-positive segment count, and
\* the last vertex of the second is indexed
C4_Witness ==
    /\ call = "AddPlane"
    /\ ret = Done
    /\ args.wsegs <= 0
    /\ Len(ms.Idx) = 12
    /\ VtxCount(ms) = 8
    /\ \E i \in 7..12 : ms.Idx[i] = 7

\* the elements of vertex v in the three arrays
VtxData(m, v) ==
    <<SubSeq(m.Vtx, 3 * v + 1, 3 * v + 3), SubSeq(m.Norm, 3 * v + 1, 3 * v + 3),
      SubSeq(m.Tex, 2 * v + 1, 2 * v + 2)>>

\* C5: a plane call starting at vertex stVtxIdx with plane size vtxSize
\* leaves the Vtx, Norm and Tex elements of every vertex outside
\* stVtxIdx .. stVtxIdx+vtxSize-1 as they were, and the vertex count becomes
\* the larger of the previous count and stVtxIdx+vtxSize.
C5_SetPlaneFrame ==
    [][call' \in {"SetPlane", "AddPlane"} =>
          LET st == IF call' = "SetPlane" THEN args'.stVtxIdx ELSE VtxCount(ms)
              w == IF args'.wsegs >= 1 THEN args'.wsegs ELSE 1
              h == IF args'.hsegs >= 1 THEN args'.hsegs ELSE 1
              vtxSize == (w + 1) * (h + 1)
              end == st + vtxSize
          IN  /\ VtxCount(ms') = IF VtxCount(ms) > end THEN VtxCount(ms) ELSE end
              /\ Len(ms'.Vtx) = 3 * VtxCount(ms')
              /\ \A v \in 0..(VtxCount(ms) - 1) :
                     (v < st \/ v >= end) => VtxData(ms', v) = VtxData(ms, v)]_vars

\* a second plane was set right after a first plane of four vertices, whose
\* positions, normals and texcoords are still there
C5_Witness ==
    /\ call = "SetPlane"
    /\ ret = Done
    /\ planes = 2
    /\ args.stVtxIdx = 4
    /\ VtxCount(ms) = 8
    /\ SubSeq(ms.Vtx, 1, 12) =
           <<F32(0), F32(0), F32(1), F32(2), F32(0), F32(1),
             F32(0), F32(2), F32(1), F32(2), F32(2), F32(1)>>
    /\ VtxData(ms, 3) = <<<<F32(2), F32(2), F32(1)>>, <<F32(0), F32(0), F32(1)>>,
                          <<F32(1), F32(0)>>>>

\* the lengths the buffer holds, <<0, 0>> for a nil buffer manager
BuffLens(b) == IF b = NilBuff THEN <<0, 0>> ELSE <<b.vlen, b.ilen>>

\* C6: whenever Validate fails, MakeVectors returns that error and changes
\* nothing: no buffer manager is created, no stream is added or deleted, no
\* length or data is set.  This holds of the MakeVectors that Activate and
\* Render3D run on a nil Buff as well.
C6_MakeVectorsRejects ==
    [][Validate(ms) # NoErr =>
          /\ call' = "MakeVectors" => (ret' = Validate(ms) /\ ms' = ms)
          /\ call' \in {"Activate", "Render3D"} /\ ms.Buff = NilBuff => ms' = ms]_vars

\* MakeVectors has returned the colour count error on a mesh compiled
\* before, whose buffer still holds the earlier compile
C6_Witness ==
    /\ call = "MakeVectors"
    /\ ret = ErrColor
    /\ ms.Buff # NilBuff
    /\ ms.Buff.vlen = 4
    /\ VtxCount(ms) = 8

\* C7 as stated: from any reachable mesh state Activate completes with the
\* buffer manager present and bound as current.
C7_ActivateBinds ==
    call = "Activate" => (ret # Panic /\ ms.Buff # NilBuff /\ ms.Buff.active)

\* C8 as stated: at every draw call issued by Render3D the GPU vector buffer
\* length equals the current vertex count and the draw count equals the
\* current len(Idx).
C8_DrawMatchesArrays ==
    call = "Render3D" /\ ret = Done =>
        /\ ms.Buff.vlen = VtxCount(ms)
        /\ draw = TrianglesIndexed(0, Len(ms.Idx))

\* C8 amended: Render3D draws the range from 0 to the length of the GPU
\* index buffer.  The GPU vector and index buffer lengths are set to the
\* vertex count and len(Idx) by a successful MakeVectors, which Activate and
\* Render3D run only when Buff is nil; no other call changes them, so after
\* a change of array length they are the lengths of the last compile.
C8_DrawUsesCompiledLengths ==
    [][/\ call' = "Render3D" /\ ret' = Done =>
              draw' = TrianglesIndexed(0, ms'.Buff.ilen)
       /\ IF \/ call' = "MakeVectors" /\ ret' = NoErr
             \/ call' \in {"Activate", "Render3D"} /\ ms.Buff = NilBuff /\ ret' = Done
          THEN BuffLens(ms'.Buff) = <<VtxCount(ms), Len(ms.Idx)>>
          ELSE BuffLens(ms'.Buff) = BuffLens(ms.Buff)]_vars

\* Render3D has drawn the six indexes of the compile after a second plane
\* made it twelve
C8_Witness ==
    /\ call = "Render3D"
    /\ ret = Done
    /\ draw = TrianglesIndexed(0, 6)
    /\ Len(ms.Idx) = 12
    /\ ms.Buff.vlen = 4
    /\ VtxCount(ms) = 8

\* C9: HasColor is false when the colour array is empty and true when it
\* holds four values for each of at least one vertex; IsTransparent is false
\* whenever the colour array is empty, whatever Trans is, and equals Trans
\* otherwise.
C9_ColorQueries ==
    /\ Len(ms.Color) = 0 => ~HasColor(ms)
    /\ VtxCount(ms) >= 1 /\ Len(ms.Color) = 4 * VtxCount(ms) => HasColor(ms)
    /\ Len(ms.Color) = 0 => IsTransparent(ms) = FALSE
    /\ HasColor(ms) => IsTransparent(ms) = ms.Trans

\* a mesh flagged transparent holds a plane without colours
C9_Witness ==
    /\ ms.Trans
    /\ VtxCount(ms) = 4
    /\ Len(ms.Color) = 0
    /\ ~IsTransparent(ms)

\* C10: Reset leaves Vtx, Norm, Tex, Idx and Color empty and everything else
\* as it was: the buffer manager with its streams, lengths and data, the
\* name, and the Dynamic and Trans flags.
C10_ResetFrame ==
    [][call' = "Reset" =>
          /\ ms'.Vtx = <<>> /\ ms'.Norm = <<>> /\ ms'.Tex = <<>>
          /\ ms'.Idx = <<>> /\ ms'.Color = <<>>
          /\ ms'.Buff = ms.Buff
          /\ ms'.Nm = ms.Nm
          /\ ms'.Dynamic = ms.Dynamic
          /\ ms'.Trans = ms.Trans]_vars

\* Reset has emptied the arrays of a compiled mesh, whose buffer still holds
\* the compiled plane
C10_Witness ==
    /\ call = "Reset"
    /\ Len(ms.Vtx) = 0
    /\ ms.Buff # NilBuff
    /\ ms.Buff.vlen = 4
    /\ ms.Buff.ilen = 6
    /\ Len(ms.Buff.idata) = 6

\* the call was SetPlane on an empty mesh with stVtxIdx = 0, stIdxIdx = 0,
\* setNorm = setTex = setIdx = true, waxis = X, haxis = Y, wdir = hdir = 1,
\* width = height = 2, woff = hoff = 0, zoff = 1, wsegs = hsegs = 1
UnitPlaneSet ==
    /\ call = "SetPlane"
    /\ planes = 1
    /\ args.stVtxIdx = 0 /\ args.stIdxIdx = 0
    /\ args.setNorm /\ args.setTex /\ args.setIdx
    /\ args.waxis = "X" /\ args.haxis = "Y"
    /\ args.wdir = 1 /\ args.hdir = 1
    /\ args.width = 2 /\ args.height = 2
    /\ args.woff = 0 /\ args.hoff = 0 /\ args.zoff = 1
    /\ args.wsegs = 1 /\ args.hsegs = 1

\* the float32 vector (x, y, z)
Vec3(x, y, z) == <<F32(x), F32(y), F32(z)>>

\* the indexes form triangles: three different vertices of the mesh each
Triangles(m) ==
    /\ Len(m.Idx) % 3 = 0
    /\ \A t \in 0..((Len(m.Idx) \div 3) - 1) :
           LET tri == SubSeq(m.Idx, 3 * t + 1, 3 * t + 3)
           IN  /\ Cardinality({tri[1], tri[2], tri[3]}) = 3
               /\ \A i \in 1..3 : tri[i] >= 0 /\ tri[i] < VtxCount(m)

\* four vertices, six indexes forming two triangles, normal (0,0,1) each
UnitPlaneShape ==
    /\ Len(ms.Vtx) = 12
    /\ Len(ms.Idx) = 6
    /\ Triangles(ms)
    /\ ms.Norm = Vec3(0, 0, 1) \o Vec3(0, 0, 1) \o Vec3(0, 0, 1) \o Vec3(0, 0, 1)

\* C11 as stated: on an empty mesh that SetPlane call produces exactly 4
\* vertices stored in the order (0,0,1), (0,2,1), (2,0,1), (2,2,1), exactly 6
\* indices forming 2 triangles, and the normal (0,0,1) for every vertex.
C11_UnitPlaneHeightInner ==
    UnitPlaneSet =>
        /\ UnitPlaneShape
        /\ ms.Vtx = Vec3(0, 0, 1) \o Vec3(0, 2, 1) \o Vec3(2, 0, 1) \o Vec3(2, 2, 1)

\* C11 amended: on an empty mesh that SetPlane call produces exactly 4
\* vertices stored with the width coordinate varying fastest, (0,0,1),
\* (2,0,1), (0,2,1), (2,2,1), the 6 indices 0,2,1, 2,3,1 forming 2 triangles,
\* and the normal (0,0,1) for every vertex.
C11_UnitPlaneWidthInner ==
    UnitPlaneSet =>
        /\ UnitPlaneShape
        /\ ms.Vtx = Vec3(0, 0, 1) \o Vec3(2, 0, 1) \o Vec3(0, 2, 1) \o Vec3(2, 2, 1)
        /\ ms.Idx = <<0, 2, 1, 2, 3, 1>>

\* that SetPlane call has returned, and the second vertex stored is (2,0,1)
C11_Witness ==
    /\ UnitPlaneSet
    /\ ret = Done
    /\ VtxCount(ms) = 4
    /\ SubSeq(ms.Vtx, 4, 6) = Vec3(2, 0, 1)

\* the stream each partial-update setter writes, and the array it writes from
SetterVec(c) ==
    CASE c = "SetVtxData" -> "InVtxPos"
      [] c = "SetNormData" -> "InVtxNorm"
      [] c = "SetColorData" -> "InVtxColor"

SetterArr(c, m) ==
    CASE c = "SetVtxData" -> m.Vtx
      [] c = "SetNormData" -> m.Norm
      [] c = "SetColorData" -> m.Color

\* C12 as stated: SetVtxData, SetNormData and SetColorData complete in any
\* mesh state, a nil Buff included, without dereferencing an absent buffer
\* manager; after a compile they overwrite only the data of their own stream
\* from the current local array, leaving the local arrays, the other
\* streams, the index buffer and the buffer lengths unchanged.
C12_SettersAnyState ==
    [][call' \in {"SetVtxData", "SetNormData", "SetColorData"} =>
          /\ ret' = Done
          /\ \A f \in {"Nm", "Dynamic", "Trans", "Vtx", "Norm", "Tex", "Idx", "Color"} :
                 ms'[f] = ms[f]
          /\ ms.Buff # NilBuff =>
                 /\ ms'.Buff # NilBuff
                 /\ \A f \in {"usage", "vlen", "iusage", "ilen", "idata", "active",
                               "epoch"} :
                        ms'.Buff[f] = ms.Buff[f]
                 /\ Len(ms'.Buff.vecs) = Len(ms.Buff.vecs)
                 /\ \A i \in 1..Len(ms.Buff.vecs) :
                        LET old == ms.Buff.vecs[i]
                        IN  ms'.Buff.vecs[i] =
                                IF old.vec = SetterVec(call')
                                THEN [old EXCEPT !.data = SetterArr(call', ms)]
                                ELSE old]_vars

\* C13: after any sequence of Reset, AddPlane and SetPlane calls on an
\* initially empty mesh, whatever the start offsets, the flags and the
\* colour, len(Norm) = len(Vtx), len(Tex)*3 = len(Vtx)*2 and len(Vtx) is a
\* multiple of 3; once a plane call was made the mesh has vertices, and
\* Validate can fail only on the colour count.
C13_ArraysParallel ==
    /\ Len(ms.Norm) = Len(ms.Vtx)
    /\ Len(ms.Tex) * 3 = Len(ms.Vtx) * 2
    /\ Len(ms.Vtx) % 3 = 0
    /\ planes >= 1 => VtxCount(ms) >= 1
    /\ VtxCount(ms) >= 1 => Validate(ms) \in {NoErr, ErrColor}

\* a SetPlane with no flag set and no colour has grown a coloured plane of
\* four vertices to eight; Norm and Tex grew with Vtx, Color did not
C13_Witness ==
    /\ call = "SetPlane"
    /\ ret = Done
    /\ ~args.setNorm /\ ~args.setTex /\ ~args.setIdx
    /\ args.stVtxIdx = 4
    /\ Len(ms.Vtx) = 24
    /\ Len(ms.Norm) = 24
    /\ Len(ms.Tex) = 16
    /\ Len(ms.Color) = 16
    /\ Validate(ms) = ErrColor

\* the streams in their order, with the interleave flag of each
Layout(b) == [i \in 1..Len(b.vecs) |-> <<b.vecs[i].vec, b.vecs[i].interleave>>]

\* position, normal and texcoord interleaved, and colour, when the mesh has
\* colours, not interleaved
LayoutOf(hasColor) ==
    LET three == <<<<"InVtxPos", TRUE>>, <<"InVtxNorm", TRUE>>, <<"InVtxTex", TRUE>>>>
    IN  IF hasColor THEN Append(three, <<"InVtxColor", FALSE>>) ELSE three

\* the call compiled the mesh: a successful MakeVectors, called directly or
\* by Activate or Render3D on a nil Buff
Compiled ==
    \/ call' = "MakeVectors" /\ ret' = NoErr
    \/ call' \in {"Activate", "Render3D"} /\ ms.Buff = NilBuff /\ ret' = Done

\* C14: after every successful MakeVectors the stream count is 4 if
\* HasColor() and 3 otherwise, with position, normal and texcoord interleaved
\* and colour not interleaved.  In a compile that is not the first one the
\* streams are deleted and added again exactly when that count differs from
\* the number of streams there were; otherwise the streams are kept, and in
\* both cases the buffer manager is the one there was, with its usage hints,
\* and only the lengths and the data are written from the current arrays.
C14_RebuildOnlyOnChange ==
    [][Compiled =>
          LET nvec == IF HasColor(ms) THEN 4 ELSE 3
              b == ms'.Buff
          IN  /\ NumVectors(b) = nvec
              /\ Layout(b) = LayoutOf(HasColor(ms))
              /\ BuffLens(b) = <<VtxCount(ms), Len(ms.Idx)>>
              /\ b.vecs[1].data = ms.Vtx /\ b.idata = ms.Idx
              /\ ms.Buff # NilBuff =>
                     /\ (b.epoch # ms.Buff.epoch) <=> (NumVectors(ms.Buff) # nvec)
                     /\ b.usage = ms.Buff.usage
                     /\ b.iusage = ms.Buff.iusage
                     /\ call' = "MakeVectors" => b.active = ms.Buff.active]_vars

\* MakeVectors has compiled eight coloured vertices into a buffer manager
\* that was activated before, so not for the first time, and the four
\* streams are those of the first compile
C14_Witness ==
    /\ call = "MakeVectors"
    /\ ret = NoErr
    /\ ms.Buff.active
    /\ NumVectors(ms.Buff) = 4
    /\ ms.Buff.epoch = 1
    /\ ms.Buff.vlen = 8
    /\ Len(ms.Buff.vecs[4].data) = 32

====
